---- MODULE Spec2Model ----
(***************************************************************************)
(* The pseudo-filesystem name resolver of fs/inode/fs_inodesearch.c        *)
(* (CONFIG_PSEUDOFS_SOFTLINKS enabled): _inode_compare, inode_nextname,    *)
(* inode_search_nofollow, inode_search and inode_linktarget.               *)
(*                                                                         *)
(* A string is a sequence of byte values; reading past its end yields the  *)
(* terminating NUL.  A node is identified by the sequence of names leading *)
(* to it from the top level; the empty sequence is the NULL pointer.  A    *)
(* char pointer is a record [base, off]: base is the softlink node whose   *)
(* u.i_link it points into, or NULL for the caller's path string; off is   *)
(* the 1-based position.                                                   *)
(*                                                                         *)
(* The three functions call each other recursively, so the model keeps an  *)
(* explicit call stack of frames.  A step is one iteration of the loop of  *)
(* inode_search_nofollow, together with the calls and returns it causes    *)
(* up to the next iteration of that loop (or the return to the caller).    *)
(***************************************************************************)
EXTENDS Integers, Sequences, FiniteSets, TLC

\* ------------------------------------------------------------------ bounds
MaxNodes == 3        \* nodes in a tree
MaxSegs == 3         \* segments of a caller path
MaxNameLen == 2      \* bytes of a name handed to the comparator alone

\* --------------------------------------------------------- program constants
SYMLOOP_MAX == 8
NUL == 0
SLASH == 47

NULL == << >>

\* Upper limits that keep the state space finite where the code has none:
\* loop iterations are counted up to IterCap (and then saturate), and a call
\* that would make the stack deeper than StackCap frames ends the run in the
\* state "overflow".
IterCap == SYMLOOP_MAX + MaxNodes + 1
NestingBound == SYMLOOP_MAX + 2 * MaxNodes
StackCap == NestingBound + 1

\* ------------------------------------------------------------ input universe
NodeNames == { <<97>>, <<98>> }                   \* "a", "b"
ChildNames == { <<97>> }                          \* below the top level: "a"
SegNames == { <<97>>, <<97, 98>>, <<98>> }        \* "a", "ab", "b"

RECURSIVE JoinSegs(_)
JoinSegs(segs) ==
  IF segs = << >> THEN << >>
  ELSE <<SLASH>> \o Head(segs) \o JoinSegs(Tail(segs))

SegLists(names, n) == UNION { [1..k -> names] : k \in 0..n }

\* Caller paths: "/" followed by 1..MaxSegs segments separated by single '/';
\* an empty segment gives "/", a trailing '/' or a doubled '/'.  A name that
\* no node has ends the walk where it stands, so it is tried in the last
\* place only.
Paths ==
  { JoinSegs(Append(s, x)) :
      s \in SegLists(NodeNames \cup {<< >>}, MaxSegs - 1),
      x \in SegNames \cup {<< >>} }

\* Softlink targets: the absolute paths of the places a node can have, a
\* top-level name or a child name below one.
LinkTargets ==
  { JoinSegs(<<x>>) : x \in NodeNames }
    \cup { JoinSegs(<<x, y>>) : x \in NodeNames, y \in ChildNames }

VARIABLES
  char_signed,   \* whether the build's plain char is signed
  nodes,         \* the inodes of the tree
  i_name,        \* node -> name
  i_peer,        \* node -> next sibling or NULL
  i_child,       \* node -> first child or NULL
  i_flags,       \* node -> "pseudo", "mountpt" or "softlink"
  i_link,        \* node -> u.i_link (softlinks), empty otherwise
  g_root_inode,  \* head of the top-level sibling list
  state,         \* "idle", "running", "done", "overflow"
  op,            \* the entry point the caller used
  path,          \* the caller's path string
  arg,           \* the node passed to inode_linktarget by the caller
  pathcur,       \* the caller's path cursor (*path)
  peer_out,      \* the caller's peer output
  parent_out,    \* the caller's parent output
  relpath_out,   \* the caller's relpath output
  ret,           \* the value returned to the caller
  stack,         \* call stack, innermost frame last
  prev,          \* outputs of the caller's previous call, if any
  cmp_args,      \* names handed to _inode_compare alone, or empty
  cmp_ret        \* what _inode_compare returned for them, or empty

treevars == <<char_signed, nodes, i_name, i_peer, i_child, i_flags, i_link,
              g_root_inode>>
outvars == <<pathcur, peer_out, parent_out, relpath_out>>
cmpvars == <<cmp_args, cmp_ret>>
vars == <<treevars, state, op, path, arg, outvars, ret, stack, prev, cmpvars>>

\* ------------------------------------------------------------------ strings
CharAt(s, i) == IF i >= 1 /\ i <= Len(s) THEN s[i] ELSE NUL

\* The value of a byte read as an unsigned char whatever the build.
CharVal_unsigned(c, signed) == c

\* The value of a byte read through a plain char.
CharVal(c, signed) == IF signed /\ c >= 128 THEN c - 256 ELSE c

Ptr(base, off) == [base |-> base, off |-> off]
UnsetPtr == Ptr(NULL, 0)

StrOf(links, p, base) == IF base = NULL THEN p ELSE links[base]

\* _inode_compare on the segment starting at s[off] and the name nname,
\* position by position (k = characters already matched).
RECURSIVE CompareFrom(_, _, _, _, _)
CompareFrom(s, off, nname, k, signed) ==
  LET f == CharAt(s, off + k)
      n == CharAt(nname, 1 + k)
  IN IF n = NUL
       THEN IF f = NUL \/ f = SLASH THEN 0 ELSE 1
     ELSE IF f = NUL \/ f = SLASH THEN -1
     ELSE IF CharVal(f, signed) > CharVal(n, signed) THEN 1
     ELSE IF CharVal(f, signed) < CharVal(n, signed) THEN -1
     ELSE CompareFrom(s, off, nname, k + 1, signed)

\* _inode_compare with NUL as the only end of the segment.
RECURSIVE CompareFrom_noslash(_, _, _, _, _)
CompareFrom_noslash(s, off, nname, k, signed) ==
  LET f == CharAt(s, off + k)
      n == CharAt(nname, 1 + k)
  IN IF n = NUL
       THEN IF f = NUL THEN 0 ELSE 1
     ELSE IF f = NUL THEN -1
     ELSE IF CharVal(f, signed) > CharVal(n, signed) THEN 1
     ELSE IF CharVal(f, signed) < CharVal(n, signed) THEN -1
     ELSE CompareFrom_noslash(s, off, nname, k + 1, signed)

_inode_compare_noslash(s, off, nname, signed) ==
  CompareFrom_noslash(s, off, nname, 0, signed)

\* A comparator for which an empty segment matches every name.
_inode_compare_emptymatch(s, off, nname, signed) ==
  IF CharAt(s, off) = NUL \/ CharAt(s, off) = SLASH THEN 0
  ELSE CompareFrom(s, off, nname, 0, signed)

_inode_compare(s, off, nname, signed) == CompareFrom(s, off, nname, 0, signed)

\* inode_nextname without the step over the '/' delimiter.
RECURSIVE inode_nextname_noskip(_, _)
inode_nextname_noskip(s, off) ==
  LET c == CharAt(s, off)
  IN IF c # NUL /\ c # SLASH THEN inode_nextname_noskip(s, off + 1)
     ELSE off

\* inode_nextname: the position after the segment starting at s[off].
RECURSIVE inode_nextname(_, _)
inode_nextname(s, off) ==
  LET c == CharAt(s, off)
  IN IF c # NUL /\ c # SLASH THEN inode_nextname(s, off + 1)
     ELSE IF c # NUL THEN off + 1
     ELSE off

\* -------------------------------------------------------------------- trees
\* A tree shape is a set of node ids closed under taking the parent.
ParentOf(n) == SubSeq(n, 1, Len(n) - 1)

\* The path that names the place of node n.
LinkTargetOf(n) == JoinSegs(n)

RECURSIVE Shapes(_)
Shapes(k) ==
  IF k = 0 THEN { {} }
  ELSE LET smaller == Shapes(k - 1)
       IN smaller \cup
          { s \cup {Append(q, nm)} :
              s \in smaller, q \in UNION smaller \cup {NULL}, nm \in NodeNames }

WellShaped(s) ==
  /\ Cardinality(s) <= MaxNodes
  /\ \A n \in s : /\ LinkTargetOf(n) \in LinkTargets
                  /\ Len(n) > 1 => ParentOf(n) \in s

Attrs == { [flags |-> "pseudo", link |-> << >>],
           [flags |-> "mountpt", link |-> << >>] }
         \cup { [flags |-> "softlink", link |-> t] : t \in LinkTargets }

\* Only plain nodes have children: inodes are not created below a mountpoint
\* or a softlink.
WellAttributed(s, a) ==
  \A n \in s : Len(n) > 1 => a[ParentOf(n)].flags = "pseudo"

NameLess(x, y, signed) == _inode_compare(x, 1, y, signed) < 0

Last(n) == n[Len(n)]

\* The sibling lists are kept in the order of _inode_compare.
Siblings(s, n) == { m \in s : Len(m) = Len(n) /\ ParentOf(m) = ParentOf(n) }
Children(s, n) == { m \in s : Len(m) = Len(n) + 1 /\ ParentOf(m) = n }

FirstOf(c, signed) ==
  IF c = {} THEN NULL
  ELSE CHOOSE m \in c : \A o \in c \ {m} : NameLess(Last(m), Last(o), signed)

PeerOf(s, n, signed) ==
  FirstOf({ m \in Siblings(s, n) : NameLess(Last(n), Last(m), signed) }, signed)

\* ---------------------------------------------------------------- the state
Frame(fn, pc, node, name, peerp, parentp) ==
  [fn |-> fn, pc |-> pc, node |-> node, left |-> NULL, above |-> NULL,
   name |-> name, copy |-> UnsetPtr, count |-> 0, iters |-> 0,
   peerp |-> peerp, parentp |-> parentp]

NoPrev == [op |-> "none", path |-> << >>, ret |-> NULL, pathcur |-> UnsetPtr,
           peer |-> NULL, parent |-> NULL, relpath |-> UnsetPtr]

InitTree(signed, attrs) ==
  \E s \in { x \in Shapes(MaxNodes) : WellShaped(x) } :
    \E a \in { x \in [s -> attrs] : WellAttributed(s, x) } :
      /\ nodes = s
      /\ i_name = [n \in s |-> Last(n)]
      /\ i_peer = [n \in s |-> PeerOf(s, n, signed)]
      /\ i_child = [n \in s |-> FirstOf(Children(s, n), signed)]
      /\ i_flags = [n \in s |-> a[n].flags]
      /\ i_link = [n \in s |-> a[n].link]
      /\ g_root_inode = FirstOf({ m \in s : Len(m) = 1 }, signed)

InitCaller ==
  /\ state = "idle"
  /\ op = "none"
  /\ path = << >>
  /\ arg = NULL
  /\ pathcur = UnsetPtr
  /\ peer_out = NULL
  /\ parent_out = NULL
  /\ relpath_out = UnsetPtr
  /\ ret = NULL
  /\ stack = << >>
  /\ prev = NoPrev

NoCompare == cmp_args = << >> /\ cmp_ret = << >>

\* All bytes of the names and paths drawn here are below 128, where a signed
\* and an unsigned plain char compare alike.
Init ==
  /\ char_signed = FALSE
  /\ InitTree(char_signed, Attrs)
  /\ InitCaller
  /\ NoCompare


\* ------------------------------------------------------------ stack helpers
Top == stack[Len(stack)]
TopOf(st) == st[Len(st)]
PopOf(st) == SubSeq(st, 1, Len(st) - 1)
SetTopOf(st, f) == [st EXCEPT ![Len(st)] = f]

\* A mountpoint test that never holds.
INODE_IS_MOUNTPT_never(n) == FALSE

INODE_IS_MOUNTPT(n) == i_flags[n] = "mountpt"
\* A softlink test that never holds.
INODE_IS_SOFTLINK_never(n) == FALSE

INODE_IS_SOFTLINK(n) == i_flags[n] = "softlink"

Deref(p) == CharAt(StrOf(i_link, path, p.base), p.off)
\* The step to the next segment that stays on the '/' delimiter.
NextName_noskip(p) ==
  Ptr(p.base, inode_nextname_noskip(StrOf(i_link, path, p.base), p.off))

NextName(p) == Ptr(p.base, inode_nextname(StrOf(i_link, path, p.base), p.off))

\* The caller-owned outputs as one value.
Out == [pathcur |-> pathcur, peer |-> peer_out, parent |-> parent_out,
        relpath |-> relpath_out]

Result(st, stt, r, o) == [stack |-> st, state |-> stt, ret |-> r, out |-> o]

\* A walk that starts at the children of the node in g_root_inode.
WalkFrame_below(name, peerp, parentp) ==
  Frame("walk", "loop",
        IF g_root_inode = NULL THEN NULL ELSE i_child[g_root_inode],
        name, peerp, parentp)

WalkFrame(name, peerp, parentp) ==
  Frame("walk", "loop", g_root_inode, name, peerp, parentp)
LinkFrame(node, peerp, parentp) ==
  Frame("link", "ret408", node, UnsetPtr, peerp, parentp)
SearchFrame == Frame("search", "ret344", NULL, UnsetPtr, TRUE, TRUE)

\* The frames of a call: inode_search_nofollow(path, peer, parent, relpath)
\* by the caller, and by inode_search, which passes its arguments on.
NofollowStack == <<WalkFrame(Ptr(NULL, 2), TRUE, TRUE)>>

\* An inode_search that passes no peer output on.
SearchStack_nopeer == <<SearchFrame, WalkFrame(Ptr(NULL, 2), FALSE, TRUE)>>

SearchStack == <<SearchFrame, WalkFrame(Ptr(NULL, 2), TRUE, TRUE)>>

\* An inode_search that never dereferences the terminal node.
SearchFollows_never(f, v) == FALSE

\* inode_search dereferences the terminal node: node != NULL and a softlink.
SearchFollows(f, v) ==
  f.pc = "ret344" /\ v # NULL /\ INODE_IS_SOFTLINK(v)

\* What the walker frame f becomes when inode_linktarget returned newnode.
\* newnode == NULL: break with node unchanged.
LinkMissingFrame(f) == [f EXCEPT !.pc = "exit"]

\* The mountpoint jump without the reset of above and left.
MountJumpFrame_keep(f, newnode) == [f EXCEPT !.node = newnode, !.pc = "exit"]

\* newnode != node and it is a mountpoint: node = newnode, above = left = NULL.
MountJumpFrame(f, newnode) ==
  [f EXCEPT !.node = newnode, !.above = NULL, !.left = NULL, !.pc = "exit"]

\* Case 2 of the walk without the update of left.
ScanRightFrame_noleft(f) == [f EXCEPT !.node = i_peer[f.node]]

\* Case 2 of the walk: left = node, node = node->i_peer.
ScanRightFrame(f) == [f EXCEPT !.left = f.node, !.node = i_peer[f.node]]

\* The descent without the update of above.
DescendFrame_noabove(f, newnode) ==
  [f EXCEPT !.left = NULL, !.node = i_child[newnode], !.pc = "loop"]

\* The mountpoint jump without the write of relpath.
MountJumpOut_keep(f, o) == o

\* The mountpoint jump writes *relpath = name, the walker's own cursor.
MountJumpOut(f, o) == [o EXCEPT !.relpath = f.name]

\* Keep looking at the next level down, below newnode.
DescendFrame(f, newnode) ==
  [f EXCEPT !.above = newnode, !.left = NULL, !.node = i_child[newnode],
            !.pc = "loop"]

\* inode_linktarget, after the look-up returned v: node = v and the count.
LinkCountFrame(f, v) ==
  [f EXCEPT !.node = v, !.count = IF v = NULL THEN @ + 1 ELSE @]

\* The outputs written after the loop of inode_search_nofollow; *path is the
\* caller's cursor unless the walk was started by inode_linktarget, whose
\* local copy it then is.
EpilogueOut(f, o, forlink) ==
  [o EXCEPT !.peer = IF f.peerp THEN f.left ELSE @,
            !.parent = IF f.parentp THEN f.above ELSE @,
            !.pathcur = IF forlink THEN @ ELSE f.name]

RECURSIVE Epilogue(_, _), Resume(_, _), Deliver(_, _, _), LinkLoop(_, _)

\* inode_search_nofollow leaves its loop: outputs, *path = name, return node.
Epilogue(st, o) ==
  LET f == TopOf(st)
      rest == PopOf(st)
      forlink == rest # << >> /\ TopOf(rest).fn = "link"
  IN Deliver(IF forlink THEN SetTopOf(rest, [TopOf(rest) EXCEPT !.copy = f.name])
                        ELSE rest,
             f.node, EpilogueOut(f, o, forlink))

\* The loop test of inode_search_nofollow: while (node != NULL).
Resume(st, o) ==
  IF TopOf(st).node # NULL THEN Result(st, "running", NULL, o)
  ELSE Epilogue(st, o)

\* The loop test of inode_linktarget: while (node != NULL && softlink), then
\* the look-up of the link target from its leading '/'.
LinkLoop(st, o) ==
  LET f == TopOf(st)
  IN IF f.node # NULL /\ INODE_IS_SOFTLINK(f.node)
       THEN IF Len(st) >= StackCap
              THEN Result(st, "overflow", NULL, o)
              ELSE Resume(Append(SetTopOf(st,
                                   [f EXCEPT !.copy = Ptr(f.node, 1),
                                             !.iters = IF @ < IterCap
                                                         THEN @ + 1 ELSE @]),
                                 WalkFrame(Ptr(f.node, 2), f.peerp, f.parentp)),
                          o)
       ELSE Deliver(PopOf(st), f.node, o)

\* The callee returned v to the innermost frame of st.
Deliver(st, v, o) ==
  IF st = << >> THEN Result(st, "done", v, o)
  ELSE
    LET f == TopOf(st)
    IN IF f.fn = "link"
         THEN IF v = NULL /\ f.count + 1 > SYMLOOP_MAX
                THEN Deliver(PopOf(st), NULL, o)
                ELSE LinkLoop(SetTopOf(st, LinkCountFrame(f, v)), o)
       ELSE IF f.fn = "walk"
         THEN IF v = NULL
                THEN Epilogue(SetTopOf(st, LinkMissingFrame(f)), o)
              ELSE IF v # f.node /\ INODE_IS_MOUNTPT(v)
                THEN Epilogue(SetTopOf(st, MountJumpFrame(f, v)),
                              MountJumpOut(f, o))
              ELSE Resume(SetTopOf(st, DescendFrame(f, v)), o)
       ELSE IF SearchFollows(f, v)
         THEN LinkLoop(Append(SetTopOf(st, [f EXCEPT !.node = v,
                                                     !.pc = "ret365"]),
                              LinkFrame(v, TRUE, TRUE)), o)
       ELSE Deliver(PopOf(st), v, o)

\* A step that takes the first node out of the top-level list.
TreeKept_unlink ==
  /\ g_root_inode' = IF g_root_inode = NULL THEN NULL
                     ELSE i_peer[g_root_inode]
  /\ UNCHANGED <<char_signed, nodes, i_name, i_peer, i_child, i_flags, i_link>>

\* No statement of the resolver assigns to a field of a node or to
\* g_root_inode: every step leaves the tree as it is.
TreeKept == UNCHANGED treevars

Apply(r) ==
  /\ stack' = r.stack
  /\ state' = r.state
  /\ ret' = r.ret
  /\ pathcur' = r.out.pathcur
  /\ peer_out' = r.out.peer
  /\ parent_out' = r.out.parent
  /\ relpath_out' = r.out.relpath

\* ------------------------------------------------------- the caller's calls
\* The caller passes a cursor at the leading '/' and all three outputs.
StartOut == [pathcur |-> Ptr(NULL, 1), peer |-> NULL, parent |-> NULL,
             relpath |-> UnsetPtr]

CallSearchNofollow(p) ==
  /\ state = "idle"
  /\ op' = "search_nofollow"
  /\ path' = p
  /\ Apply(Resume(NofollowStack, StartOut))
  /\ TreeKept
  /\ UNCHANGED <<cmpvars, arg, prev>>

CallSearch(p) ==
  /\ state = "idle"
  /\ op' = "search"
  /\ path' = p
  /\ Apply(Resume(SearchStack, StartOut))
  /\ TreeKept
  /\ UNCHANGED <<cmpvars, arg, prev>>

CallLinkTarget(n) ==
  /\ state = "idle"
  /\ op' = "linktarget"
  /\ arg' = n
  /\ Apply(LinkLoop(<<LinkFrame(n, TRUE, TRUE)>>, Out))
  /\ TreeKept
  /\ UNCHANGED <<cmpvars, path, prev>>

\* ---------------------------------------------------- inode_search_nofollow
\* A comparison that finds every node to match.
CompareTop_match == IF Top.node # NULL THEN 0 ELSE 1

CompareTop ==
  _inode_compare(StrOf(i_link, path, Top.name.base), Top.name.off,
                i_name[Top.node], char_signed)

WalkAt == state = "running" /\ Top.fn = "walk" /\ Top.node # NULL

\* Case 1: the name is less than the name of the node.
WalkLess ==
  /\ WalkAt
  /\ CompareTop < 0
  /\ Apply(Epilogue(SetTopOf(stack, [Top EXCEPT !.node = NULL, !.pc = "exit"]),
                    Out))
  /\ TreeKept
  /\ UNCHANGED <<cmpvars, op, path, arg, prev>>

\* Case 2: the name is greater than the name of the node.
WalkGreater ==
  /\ WalkAt
  /\ CompareTop > 0
  /\ Apply(Resume(SetTopOf(stack, ScanRightFrame(Top)), Out))
  /\ TreeKept
  /\ UNCHANGED <<cmpvars, op, path, arg, prev>>

\* The names match, and the path ends or the node is a mountpoint.
WalkMatchEnd ==
  /\ WalkAt
  /\ CompareTop = 0
  /\ LET name == NextName(Top.name)
     IN /\ Deref(name) = NUL \/ INODE_IS_MOUNTPT(Top.node)
        /\ Apply(Epilogue(SetTopOf(stack, [Top EXCEPT !.name = name,
                                                      !.pc = "exit"]),
                          [Out EXCEPT !.relpath = name]))
  /\ TreeKept
  /\ UNCHANGED <<cmpvars, op, path, arg, prev>>

\* The names match and more of the path follows; the node is no softlink, so
\* inode_linktarget returns it unchanged and the walk goes one level down.
WalkDescend ==
  /\ WalkAt
  /\ CompareTop = 0
  /\ LET name == NextName(Top.name)
     IN /\ ~(Deref(name) = NUL \/ INODE_IS_MOUNTPT(Top.node))
        /\ ~INODE_IS_SOFTLINK(Top.node)
        /\ Apply(Resume(SetTopOf(stack, DescendFrame([Top EXCEPT !.name = name],
                                                     Top.node)),
                        Out))
  /\ TreeKept
  /\ UNCHANGED <<cmpvars, op, path, arg, prev>>

\* The names match, more of the path follows and the node is a softlink:
\* inode_linktarget(node, NULL, NULL, relpath) is called.
WalkMatchLink ==
  /\ WalkAt
  /\ CompareTop = 0
  /\ LET name == NextName(Top.name)
     IN /\ ~(Deref(name) = NUL \/ INODE_IS_MOUNTPT(Top.node))
        /\ INODE_IS_SOFTLINK(Top.node)
        /\ Apply(LinkLoop(Append(SetTopOf(stack, [Top EXCEPT !.name = name,
                                                             !.pc = "ret259"]),
                                 LinkFrame(Top.node, FALSE, FALSE)),
                          Out))
  /\ TreeKept
  /\ UNCHANGED <<cmpvars, op, path, arg, prev>>

Next ==
  \/ \E p \in Paths : CallSearchNofollow(p)
  \/ \E p \in Paths : CallSearch(p)
  \/ \E n \in nodes : CallLinkTarget(n)
  \/ WalkLess
  \/ WalkGreater
  \/ WalkMatchEnd
  \/ WalkDescend
  \/ WalkMatchLink

Spec == Init /\ [][Next]_vars

\* ------------------------------------------- both look-ups on a plain tree
\* Trees of plain nodes only, and a caller that, when its look-up has
\* returned, keeps the results and calls the other look-up function with the
\* same path.
PlainAttrs == { [flags |-> "pseudo", link |-> << >>] }

InitPlain ==
  /\ char_signed = FALSE
  /\ InitTree(char_signed, PlainAttrs)
  /\ InitCaller
  /\ NoCompare

Again ==
  /\ state = "done"
  /\ prev.op = "none"
  /\ prev' = [op |-> op, path |-> path, ret |-> ret, pathcur |-> pathcur,
              peer |-> peer_out, parent |-> parent_out,
              relpath |-> relpath_out]
  /\ op' = IF op = "search" THEN "search_nofollow" ELSE "search"
  /\ Apply(Resume(IF op = "search" THEN NofollowStack ELSE SearchStack,
                  StartOut))
  /\ TreeKept
  /\ UNCHANGED <<cmpvars, path, arg>>

NextPlain ==
  \/ \E p \in Paths : CallSearchNofollow(p)
  \/ \E p \in Paths : CallSearch(p)
  \/ Again
  \/ WalkLess
  \/ WalkGreater
  \/ WalkMatchEnd
  \/ WalkDescend

SpecPlain == InitPlain /\ [][NextPlain]_vars

\* ------------------------------------------------- the comparator alone
\* _inode_compare applied to names of bytes below and above 128, in a build
\* with a signed and in a build with an unsigned plain char: a as the
\* segment against the name b, b against a, b against c, a against c, and a
\* followed by '/' and further text against b.
CmpBytes == { 97, 98, 200 }
CmpNames == UNION { [1..k -> CmpBytes] : k \in 1..MaxNameLen }

InitCompare ==
  /\ char_signed \in BOOLEAN
  /\ nodes = {}
  /\ i_name = << >>
  /\ i_peer = << >>
  /\ i_child = << >>
  /\ i_flags = << >>
  /\ i_link = << >>
  /\ g_root_inode = NULL
  /\ InitCaller
  /\ cmp_args \in [a : CmpNames, b : CmpNames, c : CmpNames]
  /\ cmp_ret = << >>

Compare ==
  /\ cmp_args # << >>
  /\ cmp_ret = << >>
  /\ cmp_ret' =
       LET a == cmp_args.a
           b == cmp_args.b
           c == cmp_args.c
       IN [ab |-> _inode_compare(a, 1, b, char_signed),
           ba |-> _inode_compare(b, 1, a, char_signed),
           bc |-> _inode_compare(b, 1, c, char_signed),
           ac |-> _inode_compare(a, 1, c, char_signed),
           ab_slash |-> _inode_compare(a \o <<SLASH>> \o c, 1, b,
                                       char_signed)]
  /\ TreeKept
  /\ UNCHANGED <<cmp_args, state, op, path, arg, outvars, ret, stack, prev>>

NextCompare == Compare

SpecCompare == InitCompare /\ [][NextCompare]_vars

\* ------------------------------------- the same path with a trailing slash
\* A caller that, when inode_search_nofollow has returned a node for a path
\* that does not end in '/', keeps the results and calls it again with the
\* path followed by one '/'.
AgainSlash ==
  /\ state = "done"
  /\ op = "search_nofollow"
  /\ prev.op = "none"
  /\ ret # NULL
  /\ path[Len(path)] # SLASH
  /\ prev' = [op |-> op, path |-> path, ret |-> ret, pathcur |-> pathcur,
              peer |-> peer_out, parent |-> parent_out,
              relpath |-> relpath_out]
  /\ path' = Append(path, SLASH)
  /\ Apply(Resume(NofollowStack, StartOut))
  /\ TreeKept
  /\ UNCHANGED <<cmpvars, op, arg>>

NextSlash ==
  \/ \E p \in Paths : CallSearchNofollow(p)
  \/ AgainSlash
  \/ WalkLess
  \/ WalkGreater
  \/ WalkMatchEnd
  \/ WalkDescend
  \/ WalkMatchLink

SpecSlash == Init /\ [][NextSlash]_vars

\* ============================================================================
\* What a path names, by the names alone: the sibling lists are searched for
\* an equal name without regard to their order, and softlinks are followed by
\* their target paths.  These definitions state the intended meaning of a
\* look-up; the properties below compare the walk's results with them.
\* ============================================================================

IsMount(n) == i_flags[n] = "mountpt"
IsLink(n) == i_flags[n] = "softlink"

\* The text a char pointer points at, up to the end of its string.
TextAt(p) ==
  LET s == StrOf(i_link, path, p.base)
  IN IF p.off = 0 THEN <<NUL>> ELSE SubSeq(s, p.off, Len(s))

\* The rest of the caller's path from position off.
PathFrom(off) == SubSeq(path, off, Len(path))

\* The segments of an absolute path: the text between its '/' characters.
RECURSIVE SplitFrom(_, _, _)
SplitFrom(s, i, cur) ==
  IF i > Len(s) THEN <<cur>>
  ELSE IF s[i] = SLASH THEN <<cur>> \o SplitFrom(s, i + 1, << >>)
  ELSE SplitFrom(s, i + 1, Append(cur, s[i]))

SegsOf(p) == IF Len(p) <= 1 THEN <<<< >>>> ELSE SplitFrom(p, 2, << >>)

\* The segment that starts at position off of string s.
RECURSIVE SegFrom(_, _)
SegFrom(s, off) ==
  IF CharAt(s, off) = NUL \/ CharAt(s, off) = SLASH THEN << >>
  ELSE <<s[off]>> \o SegFrom(s, off + 1)

\* The position in the path right after its first i segments and the '/'
\* that follows them.
RECURSIVE OffsetAfter(_, _)
OffsetAfter(segs, i) ==
  IF i = 0 THEN 2 ELSE OffsetAfter(segs, i - 1) + Len(segs[i]) + 1

\* Byte-wise lexicographic order of two names.
RECURSIVE LexLess(_, _)
LexLess(x, y) ==
  IF y = << >> THEN FALSE
  ELSE IF x = << >> THEN TRUE
  ELSE IF Head(x) # Head(y) THEN Head(x) < Head(y)
  ELSE LexLess(Tail(x), Tail(y))

\* The nodes of the sibling list that starts at head.
RECURSIVE ListFrom(_)
ListFrom(head) ==
  IF head = NULL THEN {} ELSE {head} \cup ListFrom(i_peer[head])

NamedIn(head, seg) ==
  LET c == { n \in ListFrom(head) : i_name[n] = seg }
  IN IF c = {} THEN NULL ELSE CHOOSE n \in c : TRUE

Softlinks == { n \in nodes : IsLink(n) }
Fuel == Cardinality(Softlinks) + 1

\* Descent by names through plain nodes only: the node named by the segments
\* when none before the last is a mountpoint or a softlink, else NULL.
RECURSIVE PlainDescent(_, _)
PlainDescent(head, segs) ==
  LET n == NamedIn(head, Head(segs))
  IN IF n = NULL THEN NULL
     ELSE IF Len(segs) = 1 THEN n
     ELSE IF i_flags[n] # "pseudo" THEN NULL
     ELSE PlainDescent(i_child[n], Tail(segs))

\* RefWalk: the node the segments name in the list at head, a mountpoint
\* absorbing what follows it, softlinks before the last segment followed, the
\* last node not followed.  RefFollow: the end of the chain of softlinks that
\* starts at n.  NULL when there is no such node; the fuel runs out only when
\* the softlinks refer to each other in a cycle.
RECURSIVE RefWalk(_, _, _), RefFollow(_, _)
RefWalk(head, segs, fuel) ==
  LET n == NamedIn(head, Head(segs))
  IN IF n = NULL THEN NULL
     ELSE IF Len(segs) = 1 \/ IsMount(n) THEN n
     ELSE IF IsLink(n)
       THEN LET t == RefFollow(n, fuel)
            IN IF t = NULL THEN NULL
               ELSE IF IsMount(t) THEN t
               ELSE RefWalk(i_child[t], Tail(segs), fuel)
     ELSE RefWalk(i_child[n], Tail(segs), fuel)

RefFollow(n, fuel) ==
  IF n = NULL THEN NULL
  ELSE IF ~IsLink(n) THEN n
  ELSE IF fuel = 0 THEN NULL
  ELSE RefFollow(RefWalk(g_root_inode, SegsOf(i_link[n]), fuel - 1), fuel - 1)

RefNofollow(segs) == RefWalk(g_root_inode, segs, Fuel)
RefSearch(segs) == RefFollow(RefNofollow(segs), Fuel)

PathSegs == SegsOf(path)
Prefix(i) == SubSeq(PathSegs, 1, i)
WellFormed(segs) == \A i \in 1..Len(segs) : segs[i] # << >>

IsWalk == op \in {"search", "search_nofollow"}
Done == state = "done"

\* No call is seen to run away: no loop of inode_linktarget has used up the
\* iterations that are counted, and the stack has not overflowed.
NoRunaway ==
  /\ state # "overflow"
  /\ \A k \in 1..Len(stack) : stack[k].iters < IterCap

\* The states in which a call has returned or is seen to run away.
Settled == Done \/ ~NoRunaway

\* ---------------------------------------------------------------------- C1
\* C1: in a tree with sorted sibling lists of distinct non-empty names, for a
\* path "/n1/.../nk" that names a node by descent through the child lists,
\* no node before the last being a mountpoint or a softlink,
\* inode_search_nofollow returns exactly that node.
ExistingPath ==
  /\ op = "search_nofollow"
  /\ WellFormed(PathSegs)
  /\ PlainDescent(g_root_inode, PathSegs) # NULL

C1_FindsExistingPath ==
  Settled /\ ExistingPath =>
    /\ NoRunaway
    /\ Done => ret = PlainDescent(g_root_inode, PathSegs)

C1_Witness ==
  /\ Done
  /\ ExistingPath
  /\ Len(PathSegs) = 2
  /\ ret # NULL
  /\ parent_out = ParentOf(ret)
  /\ parent_out # NULL


\* ---------------------------------------------------------------------- C2
\* C2 as stated: mountpoint absorption.  If a proper prefix of the path
\* resolves to a mountpoint m, inode_search and inode_search_nofollow return
\* m, relpath is the rest of the caller's path from the first character after
\* the '/' that ends the prefix, and the walk stops there (the cursor is at
\* that position).
MinOf(S) == CHOOSE i \in S : \A j \in S : i <= j

MountPrefixes ==
  { i \in 1..(Len(PathSegs) - 1) :
      LET m == RefSearch(Prefix(i)) IN m # NULL /\ IsMount(m) }

MountOnPath == IsWalk /\ MountPrefixes # {}

Absorbed(i) ==
  /\ ret = RefSearch(Prefix(i))
  /\ TextAt(relpath_out) = PathFrom(OffsetAfter(PathSegs, i))
  /\ pathcur = Ptr(NULL, OffsetAfter(PathSegs, i))

C2_MountAbsorbs ==
  Settled /\ MountOnPath =>
    /\ NoRunaway
    /\ Done => Absorbed(MinOf(MountPrefixes))

\* C2 as amended: the same, for a prefix whose last segment names m itself
\* or after whose '/' more of the path follows.  Otherwise (the prefix ends
\* in a softlink that leads to m and only a '/' follows it) the softlink is
\* the terminal node: inode_search_nofollow returns the softlink and
\* inode_search returns m.
NamedOrContinued(i) ==
  \/ RefNofollow(Prefix(i)) = RefSearch(Prefix(i))
  \/ CharAt(path, OffsetAfter(PathSegs, i)) # NUL

C2_MountAbsorbsAmended ==
  Settled /\ MountOnPath =>
    LET i == MinOf(MountPrefixes)
    IN /\ NoRunaway
       /\ Done /\ NamedOrContinued(i) => Absorbed(i)
       /\ Done /\ ~NamedOrContinued(i) =>
            ret = IF op = "search" THEN RefSearch(Prefix(i))
                                   ELSE RefNofollow(Prefix(i))

\* A mountpoint absorbs a segment that names nothing.
C2_Witness ==
  /\ Done
  /\ MountOnPath
  /\ ret # NULL
  /\ IsMount(ret)
  /\ Deref(relpath_out) # NUL
  /\ NamedIn(g_root_inode, SegFrom(path, relpath_out.off)) = NULL
  /\ Softlinks = {}

\* The same through a softlink whose target runs through the mountpoint.
C2_WitnessLink ==
  /\ Done
  /\ MountOnPath
  /\ IsMount(ret)
  /\ NamedOrContinued(1)
  /\ \E n \in Softlinks : Len(SegsOf(i_link[n])) = 2 /\ n = Prefix(1)

\* The softlink before a trailing '/' is returned as the terminal node.
C2_WitnessTrailing ==
  /\ Done
  /\ MountOnPath
  /\ ~NamedOrContinued(MinOf(MountPrefixes))
  /\ op = "search_nofollow"
  /\ IsLink(ret)

\* ---------------------------------------------------------------------- C3
\* C3: link termination.  In every tree, softlinks in a cycle included, the
\* loop of inode_linktarget runs at most SYMLOOP_MAX + k times, k being the
\* length of the longest chain of softlinks without a cycle (at most the
\* number of softlinks of the tree); and a finished inode_search of a path
\* that names a softlink whose chain of targets ends at no node, as in a
\* cycle, has returned NULL.
LinkIterations ==
  \A k \in 1..Len(stack) :
    stack[k].fn = "link" => stack[k].iters <= SYMLOOP_MAX + Cardinality(Softlinks)

C3_LinkTerminates ==
  /\ LinkIterations
  /\ Done /\ op = "search" /\ WellFormed(PathSegs) =>
       LET l == RefNofollow(PathSegs)
       IN l # NULL /\ IsLink(l) /\ RefFollow(l, Fuel) = NULL => ret = NULL

\* ---------------------------------------------------------------------- C4
\* C4: when the walk of inode_search_nofollow matches a softlink before the
\* last segment of the path and the softlink's target does not resolve,
\* inode_search_nofollow returns NULL.
BrokenLinkAt(i) ==
  LET l == RefNofollow(Prefix(i))
  IN /\ l # NULL
     /\ IsLink(l)
     /\ CharAt(path, OffsetAfter(PathSegs, i)) # NUL
     /\ RefFollow(l, Fuel) = NULL

C4_MissingTargetMisses ==
  Done /\ op = "search_nofollow"
       /\ (\E i \in 1..(Len(PathSegs) - 1) : BrokenLinkAt(i))
    => ret = NULL

\* ---------------------------------------------------------------------- C5
\* C5: every call of inode_search_nofollow returns, and the nesting of
\* inode_search_nofollow -> inode_linktarget -> inode_search_nofollow stays
\* within a bound given by the size of the tree and SYMLOOP_MAX (counted in
\* frames, two for each re-entry), also when softlinks before the last
\* segment refer to each other.
C5_BoundedNesting ==
  op = "search_nofollow" => state # "overflow" /\ Len(stack) <= NestingBound

\* ---------------------------------------------------------------------- C6
\* The look-up has ended with a miss: the cursor is at the segment that was
\* not found, after Consumed segments of the path.
Missed == Done /\ op = "search_nofollow" /\ ret = NULL

MissingSeg == SegFrom(path, pathcur.off)

Consumed ==
  CHOOSE j \in 0..Len(PathSegs) : OffsetAfter(PathSegs, j) = pathcur.off

CursorAtSegment ==
  \E j \in 0..(Len(PathSegs) - 1) : OffsetAfter(PathSegs, j) = pathcur.off

\* C6 as stated: miss disambiguation.  Whenever inode_search_nofollow returns
\* NULL, parent is NULL and the miss happened in the top-level list, or
\* parent is a node of the tree that the preceding path segment matched (it
\* bears that segment as its name) and that has no child named by the missing
\* segment; after a descent into a node without children parent is that node
\* and peer is NULL.
C6_MissDisambiguation ==
  Missed =>
    /\ CursorAtSegment
    /\ parent_out = NULL =>
         Consumed = 0 /\ NamedIn(g_root_inode, MissingSeg) = NULL
    /\ parent_out # NULL =>
         /\ parent_out \in nodes
         /\ Consumed > 0
         /\ i_name[parent_out] = PathSegs[Consumed]
         /\ NamedIn(i_child[parent_out], MissingSeg) = NULL
         /\ i_child[parent_out] = NULL => peer_out = NULL

\* C6 as amended: the same, parent being the node that the segments before
\* the missing one lead to with every softlink among them followed; it bears
\* the name of the preceding segment unless that segment named a softlink.
C6_MissDisambiguationAmended ==
  Missed =>
    /\ CursorAtSegment
    /\ parent_out = NULL =>
         Consumed = 0 /\ NamedIn(g_root_inode, MissingSeg) = NULL
    /\ parent_out # NULL =>
         /\ parent_out \in nodes
         /\ Consumed > 0
         /\ parent_out = RefSearch(Prefix(Consumed))
         /\ ~IsLink(RefNofollow(Prefix(Consumed))) =>
              i_name[parent_out] = PathSegs[Consumed]
         /\ NamedIn(i_child[parent_out], MissingSeg) = NULL
         /\ i_child[parent_out] = NULL => peer_out = NULL

\* A miss below a plain node that has a child of another name.
C6_Witness ==
  /\ Missed
  /\ parent_out # NULL
  /\ i_child[parent_out] # NULL
  /\ i_name[parent_out] = PathSegs[Consumed]

\* A descent into a node without children.
C6_WitnessNoChildren ==
  /\ Missed
  /\ parent_out # NULL
  /\ i_child[parent_out] = NULL
  /\ peer_out = NULL

\* A miss below the node a softlink leads to.
C6_WitnessLink ==
  /\ Missed
  /\ parent_out # NULL
  /\ IsLink(RefNofollow(Prefix(Consumed)))
  /\ i_name[parent_out] # PathSegs[Consumed]

\* ---------------------------------------------------------------------- C7
\* C7: insertion point.  Whenever inode_search_nofollow returns NULL, peer is
\* the node with the greatest name less than the missing segment in the list
\* where the search stopped, or NULL when no node of that list is less; all
\* other nodes of the list, which follow peer, are greater than the missing
\* segment.
StopList ==
  ListFrom(IF parent_out = NULL THEN g_root_inode ELSE i_child[parent_out])

Lesser == { n \in StopList : LexLess(i_name[n], MissingSeg) }

C7_InsertionPoint ==
  Missed =>
    /\ Lesser = {} => peer_out = NULL
    /\ Lesser # {} =>
         /\ peer_out \in Lesser
         /\ \A n \in Lesser \ {peer_out} : LexLess(i_name[n], i_name[peer_out])
    /\ \A n \in StopList \ Lesser : LexLess(MissingSeg, i_name[n])
    /\ \A n \in ListFrom(IF peer_out = NULL
                           THEN IF parent_out = NULL THEN g_root_inode
                                ELSE i_child[parent_out]
                           ELSE i_peer[peer_out]) :
         LexLess(MissingSeg, i_name[n])

\* The missing name belongs between two nodes of the list.
C7_Witness ==
  /\ Missed
  /\ peer_out # NULL
  /\ i_peer[peer_out] # NULL
  /\ MissingSeg # << >>

\* The missing name belongs after the last node of a child list.
C7_WitnessChild ==
  /\ Missed
  /\ peer_out # NULL
  /\ parent_out # NULL
  /\ i_peer[peer_out] = NULL

\* ---------------------------------------------------------------------- C8
\* C8: in a tree without softlinks and mountpoints, for every path,
\* inode_search and inode_search_nofollow return the same node or NULL and
\* leave the same peer, parent, relpath and path cursor.
BothCalled == Done /\ prev.op # "none"

C8_SameOnPlainTrees ==
  BothCalled =>
    /\ { prev.op, op } = { "search", "search_nofollow" }
    /\ prev.path = path
    /\ prev.ret = ret
    /\ prev.peer = peer_out
    /\ prev.parent = parent_out
    /\ prev.relpath = relpath_out
    /\ prev.pathcur = pathcur

\* Both called for a name that belongs between two nodes of the top level.
C8_Witness ==
  /\ BothCalled
  /\ ret = NULL
  /\ peer_out # NULL
  /\ i_peer[peer_out] # NULL

\* Both called for a path that names a node below the top level.
C8_WitnessFound ==
  /\ BothCalled
  /\ ret # NULL
  /\ parent_out # NULL
  /\ relpath_out # UnsetPtr

\* ---------------------------------------------------------------------- C9
\* C9: for a path of non-empty segments whose last segment names a softlink L
\* (the softlinks before it followed) with a chain of targets that ends at a
\* node T that is no softlink, inode_search_nofollow returns L and
\* inode_search returns T; when the path leads to a node that is no softlink,
\* inode_search returns what inode_search_nofollow returns.
EndsAtLink ==
  /\ IsWalk
  /\ WellFormed(PathSegs)
  /\ RefNofollow(PathSegs) # NULL
  /\ IsLink(RefNofollow(PathSegs))
  /\ RefSearch(PathSegs) # NULL

EndsAtOther ==
  /\ IsWalk
  /\ WellFormed(PathSegs)
  /\ RefNofollow(PathSegs) # NULL
  /\ ~IsLink(RefNofollow(PathSegs))

C9_TerminalLink ==
  /\ Settled /\ EndsAtLink =>
       /\ NoRunaway
       /\ Done /\ op = "search_nofollow" => ret = RefNofollow(PathSegs)
       /\ Done /\ op = "search" =>
            ret = RefSearch(PathSegs) /\ ~IsLink(ret)
  /\ Settled /\ EndsAtOther =>
       /\ NoRunaway
       /\ Done => ret = RefNofollow(PathSegs)

\* inode_search has followed a chain of two softlinks.
C9_Witness ==
  /\ Done
  /\ op = "search"
  /\ EndsAtLink
  /\ ret = RefSearch(PathSegs)
  /\ IsLink(RefNofollow(SegsOf(i_link[RefNofollow(PathSegs)])))

\* inode_search_nofollow has returned the softlink that the last segment
\* names below the target of a softlink.
C9_WitnessNofollow ==
  /\ Done
  /\ op = "search_nofollow"
  /\ EndsAtLink
  /\ ret = RefNofollow(PathSegs)
  /\ Len(PathSegs) = 2
  /\ IsLink(RefNofollow(Prefix(1)))

\* --------------------------------------------------------------------- C10
\* C10: when a softlink that is matched before the last segment of the path
\* resolves to a mountpoint, the look-up returns that mountpoint, relpath is
\* the caller's path from the cursor (the segments after the name of the
\* softlink), and peer and parent are NULL.
MountJumpAt(i) ==
  LET l == RefNofollow(Prefix(i))
  IN /\ l # NULL
     /\ IsLink(l)
     /\ CharAt(path, OffsetAfter(PathSegs, i)) # NUL
     /\ RefFollow(l, Fuel) # NULL
     /\ IsMount(RefFollow(l, Fuel))

MountJumps == { i \in 1..(Len(PathSegs) - 1) : MountJumpAt(i) }

RelpathWritten == Done /\ relpath_out # UnsetPtr

C11_RelpathInCallerPath ==
  RelpathWritten =>
    /\ relpath_out.base = NULL
    /\ op # "linktarget" =>
         relpath_out.off >= 2 /\ relpath_out.off <= Len(path) + 1

\* C11 as amended: relpath is a suffix of the caller's path or of the stored
\* target of a softlink of the tree.  It is the caller's path at the cursor
\* when inode_search_nofollow returns a node that is no softlink.  When
\* inode_search or inode_linktarget returns a node after following a softlink
\* as the terminal node, relpath is a suffix of the target of the last
\* softlink of the chain: what follows a mountpoint on that target, or its
\* end.
InLinkText(p) ==
  /\ p.base \in Softlinks
  /\ p.off >= 2
  /\ p.off <= Len(i_link[p.base]) + 1

C11_RelpathAmended ==
  RelpathWritten =>
    /\ \/ relpath_out.base = NULL /\ IsWalk
          /\ relpath_out.off >= 2 /\ relpath_out.off <= Len(path) + 1
       \/ InLinkText(relpath_out)
    /\ op = "search_nofollow" /\ ret # NULL /\ ~IsLink(ret) =>
         relpath_out = pathcur
    /\ op = "search" /\ ret # NULL /\ relpath_out.base = NULL =>
         relpath_out = pathcur
    /\ op \in {"search", "linktarget"} /\ ret # NULL
         /\ relpath_out.base # NULL =>
           /\ RefNofollow(SegsOf(i_link[relpath_out.base])) = ret
           /\ Deref(relpath_out) # NUL => IsMount(ret)

\* inode_search has followed a terminal softlink whose target runs through a
\* mountpoint: relpath is the rest of the softlink's target.
C11_Witness ==
  /\ RelpathWritten
  /\ op = "search"
  /\ ret # NULL
  /\ IsMount(ret)
  /\ relpath_out.base # NULL
  /\ Deref(relpath_out) # NUL

\* An intermediate softlink whose target runs through a mountpoint: relpath
\* is the caller's path after the name of the softlink.
C11_WitnessIntermediate ==
  /\ RelpathWritten
  /\ op = "search_nofollow"
  /\ MountJumps # {}
  /\ relpath_out = pathcur
  /\ Len(SegsOf(i_link[RefNofollow(Prefix(1))])) = 2

\* --------------------------------------------------------------------- C12
\* The path contains two consecutive '/': one of its segments before the
\* last is empty.  FirstEmpty is the first such segment.
EmptySegs == { i \in 1..(Len(PathSegs) - 1) : PathSegs[i] = << >> }

DoubleSlash == op = "search_nofollow" /\ EmptySegs # {}

FirstEmpty == MinOf(EmptySegs)

\* C12 as stated: the names of the tree being non-empty, for every path that
\* contains two consecutive '/', inode_search_nofollow returns NULL.
C12_DoubleSlashMisses ==
  Done /\ DoubleSlash => ret = NULL

\* C12 as amended: inode_search_nofollow returns NULL unless the walk ends
\* before it compares the empty segment: at a mountpoint, which takes the rest
\* of the path whatever it is, or at a softlink before the last segment whose
\* target does not resolve (the softlink is returned, see C4).
C12_DoubleSlashAmended ==
  Done /\ DoubleSlash =>
    /\ ret # NULL =>
         /\ pathcur.off <= OffsetAfter(PathSegs, FirstEmpty - 1)
         /\ \/ IsMount(ret)
            \/ IsLink(ret) /\ RefFollow(ret, Fuel) = NULL
    /\ (\A j \in 1..(FirstEmpty - 1) :
          LET n == RefNofollow(Prefix(j))
          IN n # NULL => ~IsMount(n) /\ ~IsLink(n)) => ret = NULL

\* The empty segment was compared with the child of a plain node.
C12_Witness ==
  /\ Done
  /\ DoubleSlash
  /\ ret = NULL
  /\ parent_out # NULL
  /\ i_child[parent_out] # NULL
  /\ pathcur.off = OffsetAfter(PathSegs, FirstEmpty - 1)

\* A mountpoint before the empty segment takes the rest of the path.
C12_WitnessMount ==
  /\ Done
  /\ DoubleSlash
  /\ ret # NULL
  /\ IsMount(ret)
  /\ Deref(relpath_out) = SLASH

\* --------------------------------------------------------------------- C13
\* C13: trailing slash.  When inode_search_nofollow returns a node n for a
\* path p that does not end in '/', it returns the same node n with the same
\* peer and parent for p followed by one '/'.
SlashCalled == prev.op # "none"

C13_TrailingSlash ==
  SlashCalled =>
    /\ path = Append(prev.path, SLASH)
    /\ prev.ret # NULL
    /\ NoRunaway
    /\ Done =>
         /\ ret = prev.ret
         /\ peer_out = prev.peer
         /\ parent_out = prev.parent

\* Both calls have returned a node below the top level with a node before it
\* in its list.
C13_Witness ==
  /\ SlashCalled
  /\ Done
  /\ ret = prev.ret
  /\ pathcur.off = prev.pathcur.off + 1
  /\ Len(prev.path) >= 4
  /\ parent_out # NULL \/ peer_out # NULL

\* Both calls have returned the softlink that the last segment names.
C13_WitnessLink ==
  /\ SlashCalled
  /\ Done
  /\ IsLink(ret)
  /\ peer_out # NULL
  /\ Deref(pathcur) = NUL

\* --------------------------------------------------------------------- C14
\* C14: root look-up.  In every tree, empty or not, inode_search and
\* inode_search_nofollow called with the path "/" return NULL with peer and
\* parent NULL.
RootLookup == IsWalk /\ path = <<SLASH>>

C14_RootLookup ==
  RootLookup /\ state # "idle" =>
    /\ NoRunaway
    /\ Done => ret = NULL /\ peer_out = NULL /\ parent_out = NULL

\* The look-up of "/" has returned in a tree with nodes.
C14_Witness ==
  /\ RootLookup
  /\ Done
  /\ op = "search"
  /\ g_root_inode # NULL
  /\ i_peer[g_root_inode] # NULL

\* The look-up of "/" has returned in the empty tree.
C14_WitnessEmpty ==
  /\ RootLookup
  /\ Done
  /\ op = "search_nofollow"
  /\ nodes = {}

\* --------------------------------------------------------------------- C15
\* C15: after a call of inode_search or inode_search_nofollow the caller's
\* cursor points into the caller's path at the first character that the walk
\* did not consume: the NUL after a full match, the start of what follows a
\* mountpoint, or the start of the first segment that was not matched on a
\* miss; following softlinks moves only inode_linktarget's own copy.
CursorPositions ==
  { OffsetAfter(PathSegs, j) : j \in 0..(Len(PathSegs) - 1) }
    \cup { Len(path) + 1 }

C15_CallerCursor ==
  Done /\ IsWalk =>
    /\ pathcur.base = NULL
    /\ pathcur.off \in CursorPositions
    /\ Deref(pathcur) # NUL =>
         \/ ret = NULL
         \/ IsMount(ret) /\ relpath_out = pathcur
    /\ Missed => CursorAtSegment /\ NamedIn(
         IF parent_out = NULL THEN g_root_inode ELSE i_child[parent_out],
         MissingSeg) = NULL

\* The same, the softlinks before the last segment whose target does not
\* resolve, which the walk returns (see C4), set aside.
C15_CallerCursorButBroken ==
  Done /\ IsWalk =>
    /\ pathcur.base = NULL
    /\ pathcur.off \in CursorPositions
    /\ Deref(pathcur) # NUL =>
         \/ ret = NULL
         \/ IsMount(ret) /\ relpath_out = pathcur
         \/ /\ op = "search_nofollow"
            /\ \E i \in 1..(Len(PathSegs) - 1) :
                 BrokenLinkAt(i) /\ ret = RefNofollow(Prefix(i))
                   /\ pathcur.off = OffsetAfter(PathSegs, i)
    /\ Missed => CursorAtSegment /\ NamedIn(
         IF parent_out = NULL THEN g_root_inode ELSE i_child[parent_out],
         MissingSeg) = NULL

\* --------------------------------------------------------------------- C16
\* C16: comparator total order.  Over non-empty names without '/' and NUL,
\* cmp(a, b) = -cmp(b, a); cmp(a, b) = 0 exactly when a = b; cmp(a, b) > 0
\* and cmp(b, c) > 0 imply cmp(a, c) > 0; a segment ended by '/' compares
\* like the same segment ended by NUL; a proper prefix compares less than the
\* longer name.
Compared == cmp_ret # << >>

ProperPrefix(x, y) == Len(x) < Len(y) /\ SubSeq(y, 1, Len(x)) = x

C16_TotalOrder ==
  Compared =>
    /\ cmp_ret.ab = 0 - cmp_ret.ba
    /\ cmp_ret.ab = 0 <=> cmp_args.a = cmp_args.b
    /\ cmp_ret.ab > 0 /\ cmp_ret.bc > 0 => cmp_ret.ac > 0
    /\ cmp_ret.ab < 0 /\ cmp_ret.bc < 0 => cmp_ret.ac < 0
    /\ cmp_ret.ab_slash = cmp_ret.ab
    /\ ProperPrefix(cmp_args.a, cmp_args.b) => cmp_ret.ab < 0

\* Three names in a descending chain, with bytes on both sides of 128, in a
\* build with a signed plain char.
C16_Witness ==
  /\ Compared
  /\ char_signed
  /\ cmp_ret.ab > 0
  /\ cmp_ret.bc > 0
  /\ cmp_ret.ac > 0
  /\ cmp_args.a[1] < 128
  /\ cmp_args.c[1] >= 128

\* A proper prefix against the longer name.
C16_WitnessPrefix ==
  /\ Compared
  /\ ProperPrefix(cmp_args.a, cmp_args.b)
  /\ cmp_ret.ab < 0
  /\ cmp_ret.ab_slash < 0

\* --------------------------------------------------------------------- C17
\* C17: the resolver is read-only.  No step of inode_search,
\* inode_search_nofollow or inode_linktarget changes the name, peer, child,
\* flags or link target of a node, or g_root_inode; only the caller's cursor,
\* peer, parent and relpath (and the returned value) are written.
C17_ReadOnly == [][treevars' = treevars]_vars

\* A look-up that followed a softlink and wrote all outputs has returned.
C17_Witness ==
  /\ Done
  /\ op = "search"
  /\ ret # NULL
  /\ parent_out # NULL
  /\ relpath_out.base # NULL
  /\ pathcur # Ptr(NULL, 1)

\* --------------------------------------------------------------------- C18
\* C18 as stated: the node held in g_root_inode takes no part in name
\* matching.  The first segment is compared only with the nodes of the child
\* list of that node, never with the node itself, and the node is never the
\* result of a look-up.
AtFirstSegment == WalkAt /\ Top.name.off = 2

C18_RootNotMatched ==
  /\ AtFirstSegment =>
       /\ Top.node # g_root_inode
       /\ Top.node \in ListFrom(i_child[g_root_inode])
  /\ Done /\ IsWalk /\ g_root_inode # NULL => ret # g_root_inode

\* C18 as amended: g_root_inode holds the first node of the top-level
\* sibling list.  The first segment of a path (and of a softlink's target) is
\* compared with that node first and then with its peers, with no parent; the
\* node is the result of inode_search_nofollow for the path that consists of
\* its name.
C18_RootIsFirstNode ==
  /\ AtFirstSegment =>
       /\ Top.node \in ListFrom(g_root_inode)
       /\ Top.left = NULL => Top.node = g_root_inode
       /\ Top.above = NULL
  /\ Done /\ op = "search_nofollow" /\ g_root_inode # NULL
       /\ PathSegs = <<i_name[g_root_inode]>> =>
         ret = g_root_inode /\ parent_out = NULL /\ peer_out = NULL

\* The node in g_root_inode, which has a child, is the result of a look-up.
C18_Witness ==
  /\ Done
  /\ op = "search_nofollow"
  /\ g_root_inode # NULL
  /\ ret = g_root_inode
  /\ i_child[g_root_inode] # NULL
  /\ PathSegs = <<i_name[g_root_inode]>>

\* --------------------------------------------------------------------- C19
\* The first position at which the segment a and the name b differ holds a
\* byte of 128..255 in a and a byte of 1..127 in b.
HighAgainstLow ==
  /\ Compared
  /\ \E k \in 1..Len(cmp_args.a) :
       /\ k <= Len(cmp_args.b)
       /\ SubSeq(cmp_args.a, 1, k - 1) = SubSeq(cmp_args.b, 1, k - 1)
       /\ cmp_args.a[k] >= 128
       /\ cmp_args.b[k] >= 1
       /\ cmp_args.b[k] < 128

\* C19 as stated: at the first differing position the bytes are ordered as
\* unsigned values; a segment byte of 128..255 against a name byte of 1..127
\* gives +1, and the reverse gives -1, whatever the signedness of plain char.
C19_UnsignedOrder ==
  HighAgainstLow => cmp_ret.ab = 1 /\ cmp_ret.ba = -1

\* C19 as amended: the bytes are ordered as values of the build's plain
\* char.  A segment byte of 128..255 against a name byte of 1..127 gives +1
\* (the reverse -1) where plain char is unsigned, and -1 (the reverse +1)
\* where plain char is signed.
C19_PlainCharOrder ==
  HighAgainstLow =>
    /\ ~char_signed => cmp_ret.ab = 1 /\ cmp_ret.ba = -1
    /\ char_signed => cmp_ret.ab = -1 /\ cmp_ret.ba = 1

\* Such a pair of names compared in a build with a signed plain char, after
\* an equal first byte.
C19_Witness ==
  /\ HighAgainstLow
  /\ char_signed
  /\ cmp_args.a[1] = cmp_args.b[1]
  /\ cmp_ret.ab = -1

\* Such a pair of names compared in a build with an unsigned plain char.
C19_WitnessUnsigned ==
  /\ HighAgainstLow
  /\ ~char_signed
  /\ cmp_ret.ab = 1

\* --------------------------------------------------------------------- C20
\* C20: whenever inode_search or inode_linktarget returns, the node returned
\* is NULL or a node that is no softlink, also when inode_search_nofollow
\* stopped at a softlink before the last segment whose target is missing.
C20_NeverASoftlink ==
  Done /\ op \in {"search", "linktarget"} =>
    ret = NULL \/ (ret \in nodes /\ ~IsLink(ret))

\* inode_search has returned after inode_search_nofollow stopped at a
\* softlink before the last segment whose target is missing.
C20_Witness ==
  /\ Done
  /\ op = "search"
  /\ \E i \in 1..(Len(PathSegs) - 1) :
       BrokenLinkAt(i) /\ pathcur.off = OffsetAfter(PathSegs, i)
  /\ ret = NULL

\* inode_linktarget has returned the node at the end of a chain of softlinks.
C20_WitnessChain ==
  /\ Done
  /\ op = "linktarget"
  /\ IsLink(arg)
  /\ ret # NULL
  /\ IsLink(RefNofollow(SegsOf(i_link[arg])))

====
